---- MODULE Spec2Model ----
(***************************************************************************)
(* Geometric image-fit engine of image-lora-prep (src/src/func/resize.py). *)
(*                                                                         *)
(* An image is its size <<width, height>>.  Python floats are modelled as  *)
(* exact rationals <<n, d>> with d > 0: on the bounded inputs below the     *)
(* comparisons and round() of the source agree with the rationals; where   *)
(* two floats are equal as rationals and their rounding decides (the keys  *)
(* of Image.thumbnail) both outcomes are modelled.                         *)
(* An absent bound (None) and the bound 0 are both falsy in the source     *)
(* (`constraints.max_width or width`) and are both written 0.              *)
(***************************************************************************)
EXTENDS Integers, Sequences, FiniteSets, TLC

\* ---------------------------------------------------------------- bounds
MaxDim == 4        \* small source widths and heights are 1..MaxDim
MaxBound == 5      \* small min/max constraint values are 0..MaxBound
MaxAspect == 4     \* target aspects are p/q with p <= MaxAspect, q in 1..MaxAspect
MaxTarget == 4     \* small letterbox target sizes are 1..MaxTarget
MaxOff == 2        \* the huge sizes are TolDen-sized values with offsets 0..MaxOff

\* the tolerance 1e-6 of the source, as 1 / TolDen
TolDen == 1000000

\* ------------------------------------------------------------ arithmetic
Abs(x) == IF x < 0 THEN -x ELSE x

Max2(a, b) == IF b > a THEN b ELSE a

\* Python round(n / d) for an integer n and d > 0: nearest integer, ties to even
RoundHalfEven(n, d) ==
    LET q == n \div d
        r == n % d
    IN  IF 2 * r < d THEN q
        ELSE IF 2 * r > d THEN q + 1
        ELSE IF q % 2 = 0 THEN q ELSE q + 1

\* rationals <<n, d>>, d > 0
FracLess(a, b) == IF a[2] = b[2] THEN a[1] < b[1] ELSE a[1] * b[2] < b[1] * a[2]

FracMin(a, b) == IF FracLess(b, a) THEN b ELSE a

FracMax(a, b) == IF FracLess(a, b) THEN b ELSE a

\* abs(n/d - 1.0) < 1e-6
NearOne(s) == Abs(s[1] - s[2]) <= (s[2] - 1) \div TolDen

\* int(round(a * n / d)) for a >= 0, n >= 0, d > 0, without forming a * n
\* when a is a multiple of d
ScaleRound(a, s) ==
    LET n == s[1]
        d == s[2]
        m == (a % d) * n
        q == (a \div d) * n + (m \div d)
        r == m % d
    IN  IF 2 * r < d THEN q
        ELSE IF 2 * r > d THEN q + 1
        ELSE IF q % 2 = 0 THEN q ELSE q + 1

\* ------------------------------------------------------------------ state
VARIABLES
    op,             \* the engine operation last called, "none" before any call
    image,          \* its source image size <<width, height>>
    target_aspect,  \* center_crop_to_aspect: the aspect <<p, q>> = p / q
    constraints,    \* resize_within_bounds: the Constraints record
    target_size,    \* letterbox_to_aspect: the target <<target_w, target_h>>
    strict_crop,    \* Image.crop raises on an inverted box (newer Pillow) or clamps it
    tie_ceil,       \* Image.thumbnail: how float rounding decides between equal keys
    result,         \* what the call returned or raised
    shape_label,    \* cmd_scale: the --shape option
    letterbox,      \* cmd_scale: the --letterbox option
    batch_cmd,      \* batch: which batch loop runs
    overwrite,      \* batch: the overwrite option
    items,          \* batch: the paths iter_image_paths yields, in order
    bad,            \* batch: the inputs whose loading or captioning raises
    idx,            \* batch: position of the loop in items
    out_dir,        \* batch: output directory, file name -> content
    out_dir0,       \* batch: the output directory when the run started
    status,         \* batch: idle, running, done (returned) or failed (raised)
    skipped,        \* batch: positions passed by the overwrite check
    loaded,         \* batch: positions whose input was loaded
    written,        \* batch: positions whose output was written
    ren_dir,        \* rename: the directory, file name -> content
    ren_dir0,       \* rename: the directory when rename_images was called
    ren_prefix,     \* rename: the prefix argument
    ren_posix,      \* rename: os.rename replaces an existing target (POSIX)
    ren_files,      \* rename: the sorted list of image file names
    ren_idx,        \* rename: position of the loop in ren_files
    ren_status,     \* rename: idle, running, done (returned) or failed (raised)
    app_status,     \* ManualCropperApp: init, running, closed or crashed
    index,          \* ManualCropperApp.index
    n_images,       \* len(ManualCropperApp.image_paths)
    current,        \* ManualCropperApp.current (a CropState, or none loaded)
    app_shape_label, \* ManualCropperApp.shape_label
    drag_offset,    \* ManualCropperApp.drag_offset, <<>> for None
    saved           \* the indices of the images whose crop on_save has written

engineVars == <<op, image, target_aspect, constraints, target_size, strict_crop,
                tie_ceil, result>>

scaleVars == <<shape_label, letterbox>>

batchVars == <<batch_cmd, overwrite, items, bad, idx, out_dir, out_dir0, status,
               skipped, loaded, written>>

renameVars == <<ren_dir, ren_dir0, ren_prefix, ren_posix, ren_files, ren_idx,
                ren_status>>

guiVars == <<app_status, index, n_images, current, app_shape_label, drag_offset,
             saved>>

vars == <<engineVars, scaleVars, batchVars, renameVars, guiVars>>

\* what an engine call, a batch step and a rename step leave alone
notEngineVars == <<batchVars, renameVars, guiVars>>

notBatchVars == <<engineVars, scaleVars, renameVars, guiVars>>

notRenameVars == <<engineVars, scaleVars, batchVars, guiVars>>

notGuiVars == <<engineVars, scaleVars, batchVars, renameVars>>

NoConstraints ==
    [min_width |-> 0, min_height |-> 0, max_width |-> 0, max_height |-> 0,
     allow_upscale |-> TRUE]

\* a returned image: its size, whether it is the source object itself, the crop
\* box applied (the whole source when no crop), the pasted region of a letterbox
Returned(size, same, box, scaled, at) ==
    [raised |-> FALSE, size |-> size, same |-> same, box |-> box,
     scaled |-> scaled, at |-> at]

Raised ==
    [raised |-> TRUE, size |-> <<0, 0>>, same |-> FALSE, box |-> <<0, 0, 0, 0>>,
     scaled |-> <<0, 0>>, at |-> <<0, 0>>]

WholeBox(img) == <<0, 0, img[1], img[2]>>

\* ------------------------------------------------- center_crop_to_aspect
\* abs(width / height - target_aspect) < 1e-6, that is
\* |width * q - p * height| * TolDen < height * q; the right-hand side
\* floor((height * q - 1) / TolDen) is formed without the product height * q
AspectClose(img, a) ==
    Abs(img[1] * a[2] - a[1] * img[2])
        <= img[2] * (a[2] \div TolDen) + (img[2] * (a[2] % TolDen) - 1) \div TolDen

\* current_aspect > target_aspect
TooWide(img, a) == img[1] * a[2] > a[1] * img[2]

\* CropBox with the centring offset computed from width + new_width
CropBox_SignSlip(img, a) ==
    LET width == img[1]
        height == img[2]
    IN  IF TooWide(img, a)
        THEN LET new_width == RoundHalfEven(height * a[1], a[2])
                 x0 == (width + new_width) \div 2
             IN  <<x0, 0, x0 + new_width, height>>
        ELSE LET new_height == RoundHalfEven(width * a[2], a[1])
                 y0 == (height + new_height) \div 2
             IN  <<0, y0, width, y0 + new_height>>

\* CropBox with the new extent computed from the axis being cropped
CropBox_Swapped(img, a) ==
    LET width == img[1]
        height == img[2]
    IN  IF TooWide(img, a)
        THEN LET new_width == RoundHalfEven(width * a[1], a[2])
                 x0 == (width - new_width) \div 2
             IN  <<x0, 0, x0 + new_width, height>>
        ELSE LET new_height == RoundHalfEven(height * a[2], a[1])
                 y0 == (height - new_height) \div 2
             IN  <<0, y0, width, y0 + new_height>>

\* CropBox with the centring offset rounded up
CropBox_CeilOffset(img, a) ==
    LET width == img[1]
        height == img[2]
    IN  IF TooWide(img, a)
        THEN LET new_width == RoundHalfEven(height * a[1], a[2])
                 x0 == (width - new_width + 1) \div 2
             IN  <<x0, 0, x0 + new_width, height>>
        ELSE LET new_height == RoundHalfEven(width * a[2], a[1])
                 y0 == (height - new_height + 1) \div 2
             IN  <<0, y0, width, y0 + new_height>>

\* the box of lines 41-50
CropBox(img, a) ==
    LET width == img[1]
        height == img[2]
    IN  IF TooWide(img, a)
        THEN LET new_width == RoundHalfEven(height * a[1], a[2])
                 x0 == (width - new_width) \div 2
             IN  <<x0, 0, x0 + new_width, height>>
        ELSE LET new_height == RoundHalfEven(width * a[2], a[1])
                 y0 == (height - new_height) \div 2
             IN  <<0, y0, width, y0 + new_height>>

\* PIL Image.crop(box): the size of the cropped image; an inverted box raises
\* ValueError in newer Pillow and gives an empty image in older Pillow
PilCrop(box, strict) ==
    IF strict /\ (box[3] < box[1] \/ box[4] < box[2])
    THEN Raised
    ELSE Returned(<<Max2(0, box[3] - box[1]), Max2(0, box[4] - box[2])>>,
                  FALSE, box, <<0, 0>>, <<0, 0>>)

\* center_crop_to_aspect without the early return of lines 38-39
center_crop_to_aspect_NoShortcut(img, a, strict) ==
    PilCrop(CropBox(img, a), strict)

center_crop_to_aspect(img, a, strict) ==
    IF AspectClose(img, a)
    THEN Returned(img, TRUE, WholeBox(img), <<0, 0>>, <<0, 0>>)
    ELSE PilCrop(CropBox(img, a), strict)

\* ------------------------------------------------------- resize_to_exact
\* PIL Image.resize(size): a new image of exactly the requested size; a
\* requested extent below 1 raises ValueError ("height and width must be > 0")
PilResize(img, size) ==
    IF size[1] < 1 \/ size[2] < 1
    THEN Raised
    ELSE Returned(size, FALSE, WholeBox(img), <<0, 0>>, <<0, 0>>)

resize_to_exact(img, size) == PilResize(img, size)

\* -------------------------------------------------- resize_within_bounds
\* ScaleDown taking the larger of the two ratios
ScaleDown_Max(img, c) ==
    IF c.max_width # 0 \/ c.max_height # 0
    THEN LET max_w == IF c.max_width # 0 THEN c.max_width ELSE img[1]
             max_h == IF c.max_height # 0 THEN c.max_height ELSE img[2]
         IN  FracMax(<<max_w, img[1]>>, <<max_h, img[2]>>)
    ELSE <<1, 1>>

\* lines 104-107: min(max_w / width, max_h / height), 1 when no max bound is set
ScaleDown(img, c) ==
    IF c.max_width # 0 \/ c.max_height # 0
    THEN LET max_w == IF c.max_width # 0 THEN c.max_width ELSE img[1]
             max_h == IF c.max_height # 0 THEN c.max_height ELSE img[2]
         IN  FracMin(<<max_w, img[1]>>, <<max_h, img[2]>>)
    ELSE <<1, 1>>

\* MinApplies without the allow_upscale test
MinApplies_NoFlag(c) == c.min_width # 0 \/ c.min_height # 0

\* line 111: the lower bounds take part
MinApplies(c) == c.allow_upscale /\ (c.min_width # 0 \/ c.min_height # 0)

\* lines 112-114: max(min_w / width, min_h / height)
ScaleUp(img, c) ==
    LET min_w == IF c.min_width # 0 THEN c.min_width ELSE img[1]
        min_h == IF c.min_height # 0 THEN c.min_height ELSE img[2]
    IN  FracMax(<<min_w, img[1]>>, <<min_h, img[2]>>)

\* FinalScale with the two blocks in the other order: min bounds, then max bounds
FinalScale_MaxWins(img, c) ==
    LET scale1 == IF MinApplies(c) THEN FracMax(<<1, 1>>, ScaleUp(img, c)) ELSE <<1, 1>>
    IN  IF c.max_width # 0 \/ c.max_height # 0
        THEN FracMin(scale1, ScaleDown(img, c))
        ELSE scale1

\* lines 101-115: the scale after the max bounds and then the min bounds
FinalScale(img, c) ==
    LET scale1 == IF c.max_width # 0 \/ c.max_height # 0
                  THEN FracMin(<<1, 1>>, ScaleDown(img, c))
                  ELSE <<1, 1>>
    IN  IF MinApplies(c) THEN FracMax(scale1, ScaleUp(img, c)) ELSE scale1

resize_within_bounds(img, c) ==
    LET scale == FinalScale(img, c)
    IN  IF NearOne(scale)
        THEN Returned(img, TRUE, WholeBox(img), <<0, 0>>, <<0, 0>>)
        ELSE Returned(<<Max2(1, ScaleRound(img[1], scale)),
                        Max2(1, ScaleRound(img[2], scale))>>,
                      FALSE, WholeBox(img), <<0, 0>>, <<0, 0>>)

\* --------------------------------------------------- letterbox_to_aspect
Sign(x) == IF x < 0 THEN -1 ELSE IF x > 0 THEN 1 ELSE 0

\* math.floor(n / d) and math.ceil(n / d) for d > 0
Floor(n, d) == n \div d

Ceil(n, d) == IF n % d = 0 THEN n \div d ELSE n \div d + 1

\* Pillow's round_aspect(number, key): the one of f = floor(number) and
\* c = ceil(number) with the smaller key, at least 1; k is the sign of
\* key(c) - key(f).  The keys are floats: when they are equal as rationals the
\* rounding of the float operations decides, which is the choice tie
\* (TRUE: ceil).
RoundAspect(f, c, k, tie) ==
    Max2(IF c # f /\ (k < 0 \/ (k = 0 /\ tie)) THEN c ELSE f, 1)

\* Thumbnail choosing the axis to fit the wrong way round (cover instead of fit)
Thumbnail_Cover(img, size, tie) ==
    LET width == img[1]
        height == img[2]
        x == size[1]
        y == size[2]
        \* key = abs(aspect - n / y): the sign of key(c) - key(f)
        KeyX(c, f) == Sign(Abs(width * y - c * height) - Abs(width * y - f * height))
        \* key = 0 if n == 0 else abs(aspect - x / n); here c = f + 1 > 0
        KeyY(c, f) ==
            IF f = 0 THEN 1
            ELSE Sign(Abs(width * c - x * height) * f - Abs(width * f - x * height) * c)
        fx == Floor(y * width, height)
        cx == Ceil(y * width, height)
        fy == Floor(x * height, width)
        cy == Ceil(x * height, width)
    IN  IF x >= width /\ y >= height THEN img
        ELSE IF x * height < width * y
        THEN <<RoundAspect(fx, cx, KeyX(cx, fx), tie), y>>
        ELSE <<x, RoundAspect(fy, cy, KeyY(cy, fy), tie)>>

\* Image.thumbnail(size) on a copy (line 151): never enlarges, keeps the aspect
Thumbnail(img, size, tie) ==
    LET width == img[1]
        height == img[2]
        x == size[1]
        y == size[2]
        \* key = abs(aspect - n / y): the sign of key(c) - key(f)
        KeyX(c, f) == Sign(Abs(width * y - c * height) - Abs(width * y - f * height))
        \* key = 0 if n == 0 else abs(aspect - x / n); here c = f + 1 > 0
        KeyY(c, f) ==
            IF f = 0 THEN 1
            ELSE Sign(Abs(width * c - x * height) * f - Abs(width * f - x * height) * c)
        fx == Floor(y * width, height)
        cx == Ceil(y * width, height)
        fy == Floor(x * height, width)
        cy == Ceil(x * height, width)
    IN  IF x >= width /\ y >= height THEN img
        ELSE IF x * height >= width * y
        THEN <<RoundAspect(fx, cx, KeyX(cx, fx), tie), y>>
        ELSE <<x, RoundAspect(fy, cy, KeyY(cy, fy), tie)>>

letterbox_to_aspect(img, size, tie) ==
    LET scaled == Thumbnail(img, size, tie)
        x == (size[1] - scaled[1]) \div 2
        y == (size[2] - scaled[2]) \div 2
    IN  Returned(size, FALSE, WholeBox(img), scaled, <<x, y>>)

\* ---------------------------------------------- auto_crop_image_to_shape
\* auto_crop_image_to_shape returning the crop without the final resize
auto_crop_image_to_shape_NoResize(img, size, strict) ==
    center_crop_to_aspect(img, <<size[1], size[2]>>, strict)

\* crop_auto.py lines 41-43: target_aspect = target_size[0] / target_size[1],
\* center crop, resize to the target
auto_crop_image_to_shape(img, size, strict) ==
    LET cropped == center_crop_to_aspect(img, <<size[1], size[2]>>, strict)
    IN  IF cropped.raised THEN Raised
        ELSE [resize_to_exact(cropped.size, size) EXCEPT !.box = cropped.box]

\* ------------------------------------------------------------- cmd_scale
\* config.py lines 24-36
ACCEPTED_SHAPES ==
    [l \in {"1:1", "3:4", "5:8", "9:16", "9:21", "4:3", "8:5", "16:9", "21:9"} |->
        CASE l = "1:1" -> <<1024, 1024>>
          [] l = "3:4" -> <<896, 1152>>
          [] l = "5:8" -> <<832, 1216>>
          [] l = "9:16" -> <<768, 1344>>
          [] l = "9:21" -> <<640, 1536>>
          [] l = "4:3" -> <<1152, 896>>
          [] l = "8:5" -> <<1216, 832>>
          [] l = "16:9" -> <<1344, 768>>
          [] l = "21:9" -> <<1536, 640>>]

\* the body of the loop of cmd_scale without the final resize_to_exact
ScaleOne_NoResize(img, c, label, lb, strict, tie) ==
    LET target == ACCEPTED_SHAPES[label]
        bounded == resize_within_bounds(img, c)
    IN  IF lb
        THEN letterbox_to_aspect(bounded.size, target, tie)
        ELSE center_crop_to_aspect(bounded.size, <<target[1], target[2]>>, strict)

\* main.py lines 116-125: the image saved for one source of cmd_scale
ScaleOne(img, c, label, lb, strict, tie) ==
    LET target == ACCEPTED_SHAPES[label]
        bounded == resize_within_bounds(img, c)
    IN  IF lb
        THEN letterbox_to_aspect(bounded.size, target, tie)
        ELSE LET cropped == center_crop_to_aspect(bounded.size,
                                                  <<target[1], target[2]>>, strict)
             IN  IF cropped.raised THEN Raised
                 ELSE [resize_to_exact(cropped.size, target) EXCEPT !.box = cropped.box]

\* ----------------------------------------------------------- batch loops
\* config.py line 19
IMAGE_EXTENSIONS == {".jpg", ".jpeg", ".png", ".webp", ".bmp", ".tiff", ".avif"}

\* The files an input tree can hold, listed in the order sorted() gives their
\* paths: a/x.png < b/x.png < notes.txt < x.jpg < x.png < y.png.
TreeFiles ==
    << [dir |-> "a", stem |-> "x", ext |-> ".png"],
       [dir |-> "b", stem |-> "x", ext |-> ".png"],
       [dir |-> "", stem |-> "notes", ext |-> ".txt"],
       [dir |-> "", stem |-> "x", ext |-> ".jpg"],
       [dir |-> "", stem |-> "x", ext |-> ".png"],
       [dir |-> "", stem |-> "y", ext |-> ".png"] >>

RECURSIVE SortedSeq(_)
SortedSeq(S) ==
    IF S = {} THEN <<>>
    ELSE LET m == CHOOSE x \in S : \A y \in S : x <= y
         IN  <<m>> \o SortedSeq(S \ {m})

\* io_utils.py lines 44-47: every image file below the directory, sorted
iter_image_paths(tree) ==
    SortedSeq({k \in tree : TreeFiles[k].ext \in IMAGE_EXTENSIONS})

\* the file name of the output of one input: src.name, or stem + ".txt"
DestName(cmd, k) ==
    IF cmd = "caption_batch"
    THEN <<TreeFiles[k].stem, ".txt">>
    ELSE <<TreeFiles[k].stem, TreeFiles[k].ext>>

BatchCommands == {"cmd_scale", "process_auto_crop_batch", "caption_batch"}

DestNames ==
    {DestName(cmd, k) : cmd \in BatchCommands, k \in 1..Len(TreeFiles)}

\* contents of a file of the output directory: none, there before the run,
\* or k when written from input TreeFiles[k]
Absent == 0
OldContent == -1

Dest(i) == DestName(batch_cmd, items[i])

OutputFiles == {d \in DestNames : out_dir[d] # Absent}

\* ------------------------------------------------------------ rename_images
\* File names are sequences of character codes, so that sorted() and str() are
\* what they are in Python: "." is 46, "0".."9" are 48..57, "A" is 65, "a" is 97.
DotChar == 46
ZeroChar == 48

\* rename.py line 14
RENAME_IMAGE_EXTENSIONS ==
    {<<46, 112, 110, 103>>,
     <<46, 106, 112, 103>>,
     <<46, 106, 112, 101, 103>>,
     <<46, 103, 105, 102>>,
     <<46, 98, 109, 112>>,
     <<46, 119, 101, 98, 112>>,
     <<46, 116, 105, 102, 102>>}

\* the names the directory can hold before the call:
\* 1.png, 10.png, 2.png, 3.jpg, A.PNG, a.png, img1.png, notes.txt
DirNames ==
    {<<49, 46, 112, 110, 103>>,
     <<49, 48, 46, 112, 110, 103>>,
     <<50, 46, 112, 110, 103>>,
     <<51, 46, 106, 112, 103>>,
     <<65, 46, 80, 78, 71>>,
     <<97, 46, 112, 110, 103>>,
     <<105, 109, 103, 49, 46, 112, 110, 103>>,
     <<110, 111, 116, 101, 115, 46, 116, 120, 116>>}

\* str.lower() on one character
LowerChar(c) == IF c >= 65 /\ c <= 90 THEN c + 32 ELSE c

Lower(s) == [i \in 1..Len(s) |-> LowerChar(s[i])]

EndsWith(s, e) ==
    Len(s) >= Len(e) /\ SubSeq(s, Len(s) - Len(e) + 1, Len(s)) = e

\* f.lower().endswith(IMAGE_EXTENSIONS)
IsImageName(f) == \E e \in RENAME_IMAGE_EXTENSIONS : EndsWith(Lower(f), e)

\* Python's order on str: the first differing character decides, a proper
\* prefix comes first
RECURSIVE StrLess(_, _)
StrLess(a, b) ==
    IF b = <<>> THEN FALSE
    ELSE IF a = <<>> THEN TRUE
    ELSE IF a[1] # b[1] THEN a[1] < b[1]
    ELSE StrLess(Tail(a), Tail(b))

RECURSIVE SortedNames(_)
SortedNames(S) ==
    IF S = {} THEN <<>>
    ELSE LET m == CHOOSE x \in S : \A y \in S \ {x} : StrLess(x, y)
         IN  <<m>> \o SortedNames(S \ {m})

\* str(index)
RECURSIVE IntToStr(_)
IntToStr(n) ==
    IF n < 10 THEN <<ZeroChar + n>>
    ELSE IntToStr(n \div 10) \o <<ZeroChar + (n % 10)>>

\* os.path.splitext(filename)[1]: from the last dot, a leading dot not counted
SplitExt(f) ==
    LET dots == {i \in 2..Len(f) : f[i] = DotChar}
    IN  IF dots = {} THEN <<>>
        ELSE SubSeq(f, CHOOSE i \in dots : \A j \in dots : j <= i, Len(f))

\* rename.py lines 37-38
NewName(prefix, n, filename) == prefix \o IntToStr(n) \o SplitExt(filename)

\* rename.py lines 32-34
ListImages(dir) == SortedNames({f \in DOMAIN dir : IsImageName(f)})

\* os.rename(old, new) where it succeeds
OsRename(dir, old, new) ==
    [n \in (DOMAIN dir \ {old}) \cup {new} |-> IF n = new THEN dir[old] ELSE dir[n]]

\* --------------------------------------------------------- ManualCropperApp
\* self.current is None
NoCurrent ==
    [loaded |-> FALSE, pil_image |-> <<1, 1>>, display_scale |-> <<1, 1>>,
     display_image |-> <<1, 1>>, rect |-> <<0, 0, 1, 1>>]

\* max(1, int(winfo_width()) or 1024)
CanvasExtent(w) == Max2(1, IF w = 0 THEN 1024 ELSE w)

\* crop_manual_gui.py lines 246-261: the rectangle for a display size and a shape
ResetRect(disp, label) ==
    LET target == ACCEPTED_SHAPES[label]
        wide == disp[1] * target[2] >= target[1] * disp[2]
        rect_w == IF wide THEN RoundHalfEven(disp[2] * target[1], target[2])
                  ELSE disp[1]
        rect_h == IF wide THEN disp[2]
                  ELSE RoundHalfEven(disp[1] * target[2], target[1])
        x0 == (disp[1] - rect_w) \div 2
        y0 == (disp[2] - rect_h) \div 2
    IN  <<x0, y0, x0 + rect_w, y0 + rect_h>>

\* _move_rect_to without the clamping of lines 270-271
MoveRect_NoClamp(disp, rect, x, y) ==
    <<x, y, x + (rect[3] - rect[1]), y + (rect[4] - rect[2])>>

\* crop_manual_gui.py lines 263-272
MoveRect(disp, rect, x, y) ==
    LET rect_w == rect[3] - rect[1]
        rect_h == rect[4] - rect[2]
        lim_x == IF disp[1] - rect_w < x THEN disp[1] - rect_w ELSE x
        lim_y == IF disp[2] - rect_h < y THEN disp[2] - rect_h ELSE y
        nx0 == Max2(0, lim_x)
        ny0 == Max2(0, lim_y)
    IN  <<nx0, ny0, nx0 + rect_w, ny0 + rect_h>>

\* crop_manual_gui.py lines 219-244: load_current for an image of size pil on
\* a canvas of size canvas; pil.resize raises when a display extent rounds to 0
LoadCurrent(pil, canvas, label) ==
    LET canvas_w == CanvasExtent(canvas[1])
        canvas_h == CanvasExtent(canvas[2])
        scale == FracMin(FracMin(<<canvas_w, pil[1]>>, <<canvas_h, pil[2]>>), <<1, 1>>)
        disp == <<RoundHalfEven(pil[1] * scale[1], scale[2]),
                  RoundHalfEven(pil[2] * scale[1], scale[2])>>
        display == PilResize(pil, disp)
    IN  IF display.raised THEN NoCurrent
        ELSE [loaded |-> TRUE, pil_image |-> pil, display_scale |-> scale,
              display_image |-> display.size, rect |-> ResetRect(display.size, label)]

\* crop_manual_gui.py lines 171-178: int(round(coord * (1.0 / display_scale)))
CropBoxOf(state) ==
    [i \in 1..4 |-> RoundHalfEven(state.rect[i] * state.display_scale[2],
                                  state.display_scale[1])]

\* ----------------------------------------------------------------- inputs
SmallSizes == (1 .. MaxDim) \X (1 .. MaxDim)

\* the sources of the spec's scenarios
ScenarioSizes == {<<2000, 1000>>, <<800, 600>>, <<300, 600>>}

\* one-pixel-wide strips whose aspect is within 1e-6 of the aspect 1e-6
ThinSizes == {<<1, (1 + k) * TolDen>> : k \in 0 .. MaxOff}

TinyAspect == <<1, TolDen>>

Aspects == (-1 .. MaxAspect) \X (1 .. MaxAspect)

ConstraintsOf(ws, hs) ==
    [min_width : ws, min_height : hs, max_width : ws, max_height : hs,
     allow_upscale : BOOLEAN]

SmallConstraints == ConstraintsOf(0 .. MaxBound, 0 .. MaxBound)

\* the bounds of the spec's scenarios on the 800 x 600 source
ScenarioConstraints == ConstraintsOf({0, 100, 400, 600}, {0, 100, 400})

\* a huge thin source and width bounds within 1e-6 of its width
HugeWide == <<2 * TolDen + 1, 1>>

HugeConstraints == ConstraintsOf({0} \cup {2 * TolDen + k : k \in 0 .. MaxOff}, 0 .. 2)

SmallTargets == (1 .. MaxTarget) \X (1 .. MaxTarget)

\* target sizes of the spec's scenario and of config.ACCEPTED_SHAPES
ScenarioTargets == {<<400, 400>>, <<1024, 1024>>, <<896, 1152>>, <<1344, 768>>}

\* ---------------------------------------------------------------- actions
Init ==
    /\ op = "none"
    /\ image = <<1, 1>>
    /\ target_aspect = <<1, 1>>
    /\ constraints = NoConstraints
    /\ target_size = <<1, 1>>
    /\ strict_crop = FALSE
    /\ tie_ceil = FALSE
    /\ result = Returned(<<1, 1>>, TRUE, <<0, 0, 1, 1>>, <<0, 0>>, <<0, 0>>)
    /\ shape_label = "1:1"
    /\ letterbox = FALSE
    /\ batch_cmd = "cmd_scale"
    /\ overwrite = FALSE
    /\ items = <<>>
    /\ bad = {}
    /\ idx = 1
    /\ out_dir = [d \in DestNames |-> Absent]
    /\ out_dir0 = [d \in DestNames |-> Absent]
    /\ status = "idle"
    /\ skipped = {}
    /\ loaded = {}
    /\ written = {}
    /\ ren_dir = <<>>
    /\ ren_dir0 = <<>>
    /\ ren_prefix = <<>>
    /\ ren_posix = TRUE
    /\ ren_files = <<>>
    /\ ren_idx = 1
    /\ ren_status = "idle"
    /\ app_status = "init"
    /\ index = 0
    /\ n_images = 1
    /\ current = NoCurrent
    /\ app_shape_label = "1:1"
    /\ drag_offset = <<>>
    /\ saved = {}

\* a caller invokes center_crop_to_aspect(image, target_aspect)
CallCenterCrop ==
    /\ op = "none"
    /\ \E in \in ((SmallSizes \cup ScenarioSizes) \X Aspects)
                 \cup (ThinSizes \X {TinyAspect}),
          strict \in BOOLEAN :
        /\ op' = "center_crop_to_aspect"
        /\ image' = in[1]
        /\ target_aspect' = in[2]
        /\ strict_crop' = strict
        /\ result' = center_crop_to_aspect(in[1], in[2], strict)
        /\ UNCHANGED <<constraints, target_size, tie_ceil>>
        /\ UNCHANGED <<scaleVars, notEngineVars>>

\* a caller invokes resize_within_bounds(image, constraints)
CallResizeWithinBounds ==
    /\ op = "none"
    /\ \E in \in (SmallSizes \X SmallConstraints)
                 \cup ({<<800, 600>>} \X ScenarioConstraints)
                 \cup ({HugeWide} \X HugeConstraints) :
        /\ op' = "resize_within_bounds"
        /\ image' = in[1]
        /\ constraints' = in[2]
        /\ result' = resize_within_bounds(in[1], in[2])
        /\ UNCHANGED <<target_aspect, target_size, strict_crop, tie_ceil>>
        /\ UNCHANGED <<scaleVars, notEngineVars>>

\* a caller invokes letterbox_to_aspect(image, target_size)
CallLetterbox ==
    /\ op = "none"
    /\ \E in \in (SmallSizes \X SmallTargets) \cup (ScenarioSizes \X ScenarioTargets),
          tie \in BOOLEAN :
        /\ op' = "letterbox_to_aspect"
        /\ image' = in[1]
        /\ target_size' = in[2]
        /\ tie_ceil' = tie
        /\ result' = letterbox_to_aspect(in[1], in[2], tie)
        /\ UNCHANGED <<target_aspect, constraints, strict_crop>>
        /\ UNCHANGED <<scaleVars, notEngineVars>>

\* a caller invokes resize_to_exact(image, target_size)
CallResizeToExact ==
    /\ op = "none"
    /\ \E in \in (SmallSizes \cup ScenarioSizes) \X (SmallTargets \cup ScenarioTargets) :
        /\ op' = "resize_to_exact"
        /\ image' = in[1]
        /\ target_size' = in[2]
        /\ result' = resize_to_exact(in[1], in[2])
        /\ UNCHANGED <<target_aspect, constraints, strict_crop, tie_ceil>>
        /\ UNCHANGED <<scaleVars, notEngineVars>>

\* a caller invokes auto_crop_image_to_shape(image, target_size, resample)
CallAutoCrop ==
    /\ op = "none"
    /\ \E in \in (SmallSizes \cup ScenarioSizes) \X (SmallTargets \cup ScenarioTargets),
          strict \in BOOLEAN :
        /\ op' = "auto_crop_image_to_shape"
        /\ image' = in[1]
        /\ target_size' = in[2]
        /\ target_aspect' = <<in[2][1], in[2][2]>>
        /\ strict_crop' = strict
        /\ result' = auto_crop_image_to_shape(in[1], in[2], strict)
        /\ UNCHANGED <<constraints, tie_ceil>>
        /\ UNCHANGED <<scaleVars, notEngineVars>>

\* the shapes the scale command is run with in the model
ScaleShapes == {"1:1", "9:21"}

\* cmd_scale processes one image: bounds, then letterbox or crop and resize
CallScale ==
    /\ op = "none"
    /\ \E in \in (SmallSizes \X SmallConstraints)
                 \cup ({<<800, 600>>, <<2000, 1000>>} \X ScenarioConstraints),
          label \in ScaleShapes, lb \in BOOLEAN, strict \in BOOLEAN, tie \in BOOLEAN :
        /\ op' = "cmd_scale"
        /\ image' = in[1]
        /\ constraints' = in[2]
        /\ shape_label' = label
        /\ letterbox' = lb
        /\ target_size' = ACCEPTED_SHAPES[label]
        /\ target_aspect' = <<ACCEPTED_SHAPES[label][1], ACCEPTED_SHAPES[label][2]>>
        /\ strict_crop' = (strict /\ ~lb)
        /\ tie_ceil' = (tie /\ lb)
        /\ result' = ScaleOne(in[1], in[2], label, lb, strict /\ ~lb, tie /\ lb)
        /\ UNCHANGED notEngineVars

\* the runs of the batch loops in the model
MaxInputs == 3
MaxBad == 1
MaxExisting == 1

SubsetsUpTo(S, n) == {T \in SUBSET S : Cardinality(T) <= n}

\* a batch command is started on an input directory and an output directory
StartBatch ==
    /\ status = "idle"
    /\ \E cmd \in BatchCommands, ow \in BOOLEAN,
          tree \in SubsetsUpTo(1..Len(TreeFiles), MaxInputs) :
        \E raising \in SubsetsUpTo(tree, MaxBad),
           existing \in SubsetsUpTo({DestName(cmd, k) : k \in 1..Len(TreeFiles)},
                                    MaxExisting) :
            /\ batch_cmd' = cmd
            /\ overwrite' = ow
            /\ items' = iter_image_paths(tree)
            /\ bad' = raising
            /\ idx' = 1
            /\ out_dir' = [d \in DestNames |->
                              IF d \in existing THEN OldContent ELSE Absent]
            /\ out_dir0' = out_dir'
            /\ status' = "running"
            /\ skipped' = {}
            /\ loaded' = {}
            /\ written' = {}
    /\ UNCHANGED notBatchVars

AtItem == status = "running" /\ idx <= Len(items)

SkipCheck == out_dir[Dest(idx)] # Absent /\ ~overwrite

\* if dest.exists() and not overwrite: continue
SkipExisting ==
    /\ AtItem
    /\ SkipCheck
    /\ idx' = idx + 1
    /\ skipped' = skipped \cup {idx}
    /\ UNCHANGED <<batch_cmd, overwrite, items, bad, out_dir, out_dir0, status, loaded,
                   written>>
    /\ UNCHANGED notBatchVars

\* the input is loaded, transformed (or captioned) and its output written
ProcessItem ==
    /\ AtItem
    /\ ~SkipCheck
    /\ items[idx] \notin bad
    /\ loaded' = loaded \cup {idx}
    /\ out_dir' = [out_dir EXCEPT ![Dest(idx)] = items[idx]]
    /\ written' = written \cup {idx}
    /\ idx' = idx + 1
    /\ UNCHANGED <<batch_cmd, overwrite, items, bad, out_dir0, status, skipped>>
    /\ UNCHANGED notBatchVars

\* loading or captioning the input raises: nothing in the loop catches it,
\* the exception leaves the function
ItemRaises ==
    /\ AtItem
    /\ ~SkipCheck
    /\ items[idx] \in bad
    /\ loaded' = loaded \cup {idx}
    /\ status' = "failed"
    /\ UNCHANGED <<batch_cmd, overwrite, items, bad, idx, out_dir, out_dir0, skipped,
                   written>>
    /\ UNCHANGED notBatchVars

\* the loop is exhausted and the function returns
BatchReturn ==
    /\ status = "running"
    /\ idx > Len(items)
    /\ status' = "done"
    /\ UNCHANGED <<batch_cmd, overwrite, items, bad, idx, out_dir, out_dir0, skipped,
                   loaded, written>>
    /\ UNCHANGED notBatchVars

\* the calls of rename_images in the model
MaxFiles == 3

\* "", "img"
Prefixes == {<<>>, <<105, 109, 103>>}

\* rename_images(directory, prefix) is called and lists the directory; the
\* content of a file is tagged by the name it has before the call
StartRename ==
    /\ ren_status = "idle"
    /\ \E present \in SubsetsUpTo(DirNames, MaxFiles), prefix \in Prefixes,
          posix \in BOOLEAN :
        /\ ren_dir' = [n \in present |-> n]
        /\ ren_dir0' = ren_dir'
        /\ ren_prefix' = prefix
        /\ ren_posix' = posix
        /\ ren_files' = ListImages(ren_dir')
        /\ ren_idx' = 1
        /\ ren_status' = "running"
    /\ UNCHANGED notRenameVars

RenameTarget == NewName(ren_prefix, ren_idx, ren_files[ren_idx])

\* os.rename raises: the source is gone, or the target exists where os.rename
\* does not replace
RenameFails ==
    \/ ren_files[ren_idx] \notin DOMAIN ren_dir
    \/ /\ ~ren_posix
       /\ RenameTarget \in DOMAIN ren_dir
       /\ RenameTarget # ren_files[ren_idx]

\* one iteration of the loop: os.rename(old_path, new_path)
RenameOne ==
    /\ ren_status = "running"
    /\ ren_idx <= Len(ren_files)
    /\ ~RenameFails
    /\ ren_dir' = OsRename(ren_dir, ren_files[ren_idx], RenameTarget)
    /\ ren_idx' = ren_idx + 1
    /\ UNCHANGED <<ren_dir0, ren_prefix, ren_posix, ren_files, ren_status>>
    /\ UNCHANGED notRenameVars

\* os.rename raises and the exception leaves rename_images
RenameRaises ==
    /\ ren_status = "running"
    /\ ren_idx <= Len(ren_files)
    /\ RenameFails
    /\ ren_status' = "failed"
    /\ UNCHANGED <<ren_dir, ren_dir0, ren_prefix, ren_posix, ren_files, ren_idx>>
    /\ UNCHANGED notRenameVars

\* the loop is exhausted and rename_images returns
RenameReturn ==
    /\ ren_status = "running"
    /\ ren_idx > Len(ren_files)
    /\ ren_status' = "done"
    /\ UNCHANGED <<ren_dir, ren_dir0, ren_prefix, ren_posix, ren_files, ren_idx>>
    /\ UNCHANGED notRenameVars

\* the sessions of the manual cropper in the model
MaxImages == 2
MaxPil == 3
MaxCanvas == 3
MaxXY == 4

PilSizes == (1..MaxPil) \X (1..MaxPil)

\* winfo_width() and winfo_height() of the canvas (kept square); 1 x 1 until
\* the window is mapped
CanvasSizes == {<<c, c>> : c \in 1..MaxCanvas}

GuiShapes == {"1:1", "9:21", "16:9"}

\* where the pointer can be: inside, on the edge of and outside the display
PointerXY == (-1..MaxXY) \X (-1..MaxXY)

\* ManualCropperApp(...): the constructor ends with load_current()
AppInit ==
    /\ app_status = "init"
    /\ \E n \in 1..MaxImages, label \in GuiShapes, pil \in PilSizes,
          canvas \in CanvasSizes :
        LET state == LoadCurrent(pil, canvas, label)
        IN  /\ n_images' = n
            /\ app_shape_label' = label
            /\ current' = state
            /\ app_status' = IF state.loaded THEN "running" ELSE "crashed"
    /\ UNCHANGED <<index, drag_offset, saved>>
    /\ UNCHANGED notGuiVars

\* on_shape_change: a shape radio button is selected
OnShapeChange ==
    /\ app_status = "running"
    /\ \E label \in GuiShapes :
        /\ app_shape_label' = label
        /\ current' = [current EXCEPT !.rect = ResetRect(current.display_image, label)]
    /\ UNCHANGED <<app_status, index, n_images, drag_offset, saved>>
    /\ UNCHANGED notGuiVars

InsideRect(rect, x, y) ==
    rect[1] <= x /\ x <= rect[3] /\ rect[2] <= y /\ y <= rect[4]

\* on_mouse_down: button 1 is pressed on the canvas
OnMouseDown ==
    /\ app_status = "running"
    /\ \E ev \in PointerXY :
        LET rect == current.rect
            half == <<(rect[3] - rect[1]) \div 2, (rect[4] - rect[2]) \div 2>>
        IN  IF InsideRect(rect, ev[1], ev[2])
            THEN /\ drag_offset' = <<ev[1] - rect[1], ev[2] - rect[2]>>
                 /\ current' = current
            ELSE /\ drag_offset' = half
                 /\ current' = [current EXCEPT !.rect =
                        MoveRect(current.display_image, rect,
                                 ev[1] - half[1], ev[2] - half[2])]
    /\ UNCHANGED <<app_status, index, n_images, app_shape_label, saved>>
    /\ UNCHANGED notGuiVars

\* on_mouse_drag: the pointer moves with button 1 down
OnMouseDrag ==
    /\ app_status = "running"
    /\ drag_offset # <<>>
    /\ \E ev \in PointerXY :
        current' = [current EXCEPT !.rect =
            MoveRect(current.display_image, current.rect,
                     ev[1] - drag_offset[1], ev[2] - drag_offset[2])]
    /\ UNCHANGED <<app_status, index, n_images, app_shape_label, drag_offset, saved>>
    /\ UNCHANGED notGuiVars

\* on_next after the index moved to i: the application closes after the last
\* image, else the image is loaded; a load that raises leaves self.current
GoTo(i) ==
    /\ index' = i
    /\ IF i >= n_images
       THEN /\ app_status' = "closed"
            /\ current' = current
       ELSE /\ app_status' = app_status
            /\ \E pil \in PilSizes, canvas \in CanvasSizes :
                LET state == LoadCurrent(pil, canvas, app_shape_label)
                IN  current' = IF state.loaded THEN state ELSE current

\* crop_manual_gui.py lines 170-182: the crop on_save makes of the original
SavedCrop(state, label) ==
    LET crop_box == CropBoxOf(state)
        cropped == PilCrop(crop_box, FALSE)
    IN  [resize_to_exact(cropped.size, ACCEPTED_SHAPES[label]) EXCEPT !.box = crop_box]

\* on_save: crop the original by the mapped rectangle, resize, save, on_next;
\* when the user declines to overwrite it is on_skip
OnSave ==
    /\ app_status = "running"
    /\ \E declined \in BOOLEAN :
        saved' = IF declined \/ SavedCrop(current, app_shape_label).raised
                 THEN saved
                 ELSE saved \cup {index}
    /\ GoTo(index + 1)
    /\ UNCHANGED <<n_images, app_shape_label, drag_offset>>
    /\ UNCHANGED notGuiVars

\* on_skip: the Next button
OnSkip ==
    /\ app_status = "running"
    /\ GoTo(index + 1)
    /\ UNCHANGED <<n_images, app_shape_label, drag_offset, saved>>
    /\ UNCHANGED notGuiVars

\* on_prev: the Back button
OnPrev ==
    /\ app_status = "running"
    /\ index > 0
    /\ GoTo(index - 1)
    /\ UNCHANGED <<n_images, app_shape_label, drag_offset, saved>>
    /\ UNCHANGED notGuiVars

Next ==
    \/ CallCenterCrop
    \/ CallResizeWithinBounds
    \/ CallLetterbox
    \/ CallResizeToExact
    \/ CallAutoCrop

NextScale == CallScale

SpecScale == Init /\ [][NextScale]_vars

NextBatch ==
    \/ StartBatch
    \/ SkipExisting
    \/ ProcessItem
    \/ ItemRaises
    \/ BatchReturn

SpecBatch == Init /\ [][NextBatch]_vars

NextRename ==
    \/ StartRename
    \/ RenameOne
    \/ RenameRaises
    \/ RenameReturn

SpecRename == Init /\ [][NextRename]_vars

NextGui ==
    \/ AppInit
    \/ OnShapeChange
    \/ OnMouseDown
    \/ OnMouseDrag
    \/ OnSkip
    \/ OnPrev
    \/ OnSave

SpecGui == Init /\ [][NextGui]_vars

Spec == Init /\ [][Next]_vars

\* ------------------------------------------------------------ properties
IsCrop == op = "center_crop_to_aspect"

IsBounds == op = "resize_within_bounds"

IsLetterbox == op = "letterbox_to_aspect"

\* the call had max_width = M set and a source wider than M
MaxWidthCase ==
    /\ IsBounds
    /\ constraints.max_width > 0
    /\ image[1] > constraints.max_width

\* the min bounds raise the scale above the max-bound scale: scale_up > scale_down
MinOverridesMax ==
    /\ MinApplies(constraints)
    /\ FracLess(ScaleDown(image, constraints), ScaleUp(image, constraints))

\* the source is returned as it is because abs(scale - 1.0) < 1e-6
ScaleIsNoOp == NearOne(FinalScale(image, constraints))

WithoutMins(c) == [c EXCEPT !.min_width = 0, !.min_height = 0]

\* every specified min bound is met by the image after the max-bound downscale
MinsMetAfterDownscale ==
    LET down == resize_within_bounds(image, WithoutMins(constraints))
    IN  /\ constraints.min_width # 0 => down.size[1] >= constraints.min_width
        /\ constraints.min_height # 0 => down.size[2] >= constraints.min_height

\* C2: with allow_upscale set and every specified min bound still met after
\* the max-bound downscale, the result is the one of the same call without the
\* min bounds, so no specified max bound is exceeded.
C2_MinOnlyOnConflict ==
    (IsBounds /\ MinApplies(constraints) /\ MinsMetAfterDownscale)
        => result = resize_within_bounds(image, WithoutMins(constraints))

\* C3 as stated: with allow_upscale set the final scale is at least scale_up,
\* so min_width = m gives a result at least m wide and min_height = m a result
\* at least m high, also against a smaller max bound.
C3_AsStated ==
    (IsBounds /\ constraints.allow_upscale)
        => /\ constraints.min_width # 0 => result.size[1] >= constraints.min_width
           /\ constraints.min_height # 0 => result.size[2] >= constraints.min_height

\* C3 (amended): with allow_upscale set and a min bound set the final scale is
\* at least scale_up, and unless that scale is within 1e-6 of 1 (the source is
\* then returned as it is) the result meets every specified min bound, also
\* against a smaller max bound.
C3_MinWins ==
    (IsBounds /\ MinApplies(constraints))
        => /\ ~FracLess(FinalScale(image, constraints), ScaleUp(image, constraints))
           /\ ~ScaleIsNoOp =>
                /\ constraints.min_width # 0
                     => result.size[1] >= constraints.min_width
                /\ constraints.min_height # 0
                     => result.size[2] >= constraints.min_height

\* a conflict: the result is wider than max_width because min_width asks for it
C3_Witness ==
    /\ IsBounds
    /\ constraints.allow_upscale
    /\ constraints.max_width # 0
    /\ constraints.min_width > constraints.max_width
    /\ image[1] > constraints.max_width
    /\ ~result.same
    /\ result.size[1] >= constraints.min_width

\* C4: with allow_upscale = False the result is never larger than the source in
\* either dimension, and with only min bounds set the source is returned as it is.
C4_NoUpscale ==
    (IsBounds /\ ~constraints.allow_upscale)
        => /\ result.size[1] <= image[1]
           /\ result.size[2] <= image[2]
           /\ (constraints.max_width = 0 /\ constraints.max_height = 0)
                => (result.same /\ result.size = image)

\* only a min bound above the source width, upscaling not allowed
C4_Witness ==
    /\ IsBounds
    /\ ~constraints.allow_upscale
    /\ constraints.min_width > image[1]
    /\ constraints.max_width = 0
    /\ constraints.max_height = 0
    /\ result.same

\* the call had a target aspect a = p / q > 0
PositiveAspect == target_aspect[1] > 0

\* C5: for a > 0 the crop box lies within the source, 0 <= x0 <= x1 <= w and
\* 0 <= y0 <= y1 <= h, and the cropped extent is never larger than the source's.
C5_BoxWithinSource ==
    (IsCrop /\ PositiveAspect)
        => /\ ~result.raised
           /\ 0 <= result.box[1]
           /\ result.box[1] <= result.box[3]
           /\ result.box[3] <= image[1]
           /\ 0 <= result.box[2]
           /\ result.box[2] <= result.box[4]
           /\ result.box[4] <= image[2]
           /\ result.size[1] = result.box[3] - result.box[1]
           /\ result.size[2] = result.box[4] - result.box[2]
           /\ result.size[1] <= image[1]
           /\ result.size[2] <= image[2]

\* a crop that removes a margin on both sides of a too-wide source
C5_Witness ==
    /\ IsCrop
    /\ PositiveAspect
    /\ ~result.same
    /\ result.box[1] > 0
    /\ result.box[3] < image[1]
    /\ result.size[1] > 0

\* the returned size (w', h') has aspect a = p / q within one pixel:
\* |w' - a * h'| <= 1 or |h' - w' / a| <= 1
AspectWithinOnePixel ==
    \/ Abs(result.size[1] * target_aspect[2] - target_aspect[1] * result.size[2])
           <= target_aspect[2]
    \/ Abs(result.size[2] * target_aspect[1] - result.size[1] * target_aspect[2])
           <= target_aspect[1]

OneExtentKept == result.size[1] = image[1] \/ result.size[2] = image[2]

\* C6 as stated: for every source and every a > 0 the returned size has aspect
\* a within the rounding of one pixel, one of its extents being the source's.
C6_AsStated == (IsCrop /\ PositiveAspect) => (AspectWithinOnePixel /\ OneExtentKept)

\* C6 (amended): for every source and every a > 0 one extent of the returned
\* size is the source's, and its aspect is a within the rounding of one pixel
\* unless the source aspect is within 1e-6 of a (the source is then returned
\* as it is, whatever that difference is in pixels).
C6_AspectReached ==
    (IsCrop /\ PositiveAspect)
        => /\ OneExtentKept
           /\ ~AspectClose(image, target_aspect) => AspectWithinOnePixel

\* 2000 x 1000 cropped to the aspect 1: a 1000 x 1000 result
C6_Witness ==
    /\ IsCrop
    /\ image = <<2000, 1000>>
    /\ target_aspect = <<1, 1>>
    /\ ~result.same
    /\ result.size = <<1000, 1000>>

\* C7: a target aspect <= 0 is rejected with an error and no image is returned.
C7_NonPositiveAspectRejected == (IsCrop /\ ~PositiveAspect) => result.raised

\* C8: a crop box or scaled size with a zero or negative extent is reported as
\* an error: no image with a zero dimension is returned.
C8_NoDegenerateImage ==
    ((IsCrop /\ PositiveAspect) \/ IsBounds)
        => (result.raised \/ (result.size[1] > 0 /\ result.size[2] > 0))

\* C9: a source whose aspect is within 1e-6 of a is returned as it is: same
\* image, same width and height, no crop.
C9_CloseAspectIsNoOp ==
    (IsCrop /\ AspectClose(image, target_aspect))
        => /\ ~result.raised
           /\ result.same
           /\ result.size = image
           /\ result.box = WholeBox(image)

\* a strip whose aspect is close to, but not equal to, the target aspect
C9_Witness ==
    /\ IsCrop
    /\ AspectClose(image, target_aspect)
    /\ image[1] * target_aspect[2] # target_aspect[1] * image[2]
    /\ result.same
    /\ result.size = image

\* C10: the canvas is exactly W x H; the scaled source (sw, sh) has sw <= W and
\* sh <= H, is pasted at ((W - sw) // 2, (H - sh) // 2) and lies inside the
\* canvas; 300 x 600 into 400 x 400 gives a 200 x 400 region at (100, 0).
C10_LetterboxFits ==
    IsLetterbox
        => /\ ~result.raised
           /\ result.size = target_size
           /\ result.scaled[1] >= 1
           /\ result.scaled[2] >= 1
           /\ result.scaled[1] <= target_size[1]
           /\ result.scaled[2] <= target_size[2]
           /\ result.at[1] = (target_size[1] - result.scaled[1]) \div 2
           /\ result.at[2] = (target_size[2] - result.scaled[2]) \div 2
           /\ result.at[1] >= 0
           /\ result.at[2] >= 0
           /\ result.at[1] + result.scaled[1] <= target_size[1]
           /\ result.at[2] + result.scaled[2] <= target_size[2]
           /\ (image = <<300, 600>> /\ target_size = <<400, 400>>)
                => (result.scaled = <<200, 400>> /\ result.at = <<100, 0>>)

\* the scenario 300 x 600 into 400 x 400
C10_Witness ==
    /\ IsLetterbox
    /\ image = <<300, 600>>
    /\ target_size = <<400, 400>>
    /\ result.size = <<400, 400>>
    /\ result.scaled = <<200, 400>>
    /\ result.at = <<100, 0>>

\* the source has exactly the aspect of the letterbox target
SameAspectAsTarget == image[1] * target_size[2] = image[2] * target_size[1]

\* C11: a source whose aspect is exactly the target's gets no padding: both
\* offsets are zero and the scaled source covers the whole canvas, whether the
\* source is smaller than, equal to or larger than the target.
C11_NoPaddingOnSameAspect ==
    (IsLetterbox /\ SameAspectAsTarget)
        => /\ result.at = <<0, 0>>
           /\ result.scaled = target_size

\* C15: a too-wide source is cropped to new_width = round(height * a) around
\* the horizontal centre, x0 = floor((width - new_width) / 2), the box being
\* (x0, 0, x0 + new_width, height): the margins differ by at most 1 and the
\* height is kept; a too-tall source likewise with new_height = round(width / a);
\* 2000 x 1000 at a = 1 gives (500, 0, 1500, 1000).  (Too wide and too tall
\* are the second and third case of the operation, after the 1e-6 no-op.)
C15_SymmetricCrop ==
    (IsCrop /\ PositiveAspect /\ ~AspectClose(image, target_aspect))
        => LET p == target_aspect[1]
               q == target_aspect[2]
               b == result.box
           IN  /\ ~result.raised
               /\ image[1] * q > p * image[2] =>
                    /\ b[3] - b[1] = RoundHalfEven(image[2] * p, q)
                    /\ 2 * b[1] <= image[1] - (b[3] - b[1])
                    /\ 2 * b[1] + 1 >= image[1] - (b[3] - b[1])
                    /\ Abs(b[1] - (image[1] - b[3])) <= 1
                    /\ b[2] = 0 /\ b[4] = image[2]
               /\ image[1] * q < p * image[2] =>
                    /\ b[4] - b[2] = RoundHalfEven(image[1] * q, p)
                    /\ 2 * b[2] <= image[2] - (b[4] - b[2])
                    /\ 2 * b[2] + 1 >= image[2] - (b[4] - b[2])
                    /\ Abs(b[2] - (image[2] - b[4])) <= 1
                    /\ b[1] = 0 /\ b[3] = image[1]
               /\ (image = <<2000, 1000>> /\ p = 1 /\ q = 1)
                    => b = <<500, 0, 1500, 1000>>

\* the scenario 2000 x 1000 at a = 1
C15_Witness ==
    /\ IsCrop
    /\ image = <<2000, 1000>>
    /\ target_aspect = <<1, 1>>
    /\ result.box = <<500, 0, 1500, 1000>>

\* C12: resize_to_exact returns an image of exactly the requested positive
\* size, and so does auto_crop_image_to_shape (center crop, then resize) for
\* every source with positive dimensions.
C12_ExactSize ==
    (op \in {"resize_to_exact", "auto_crop_image_to_shape"})
        => /\ ~result.raised
           /\ result.size = target_size

\* an auto crop that really cropped before resizing to the target
C12_Witness ==
    /\ op = "auto_crop_image_to_shape"
    /\ result.box # WholeBox(image)
    /\ result.size = target_size
    /\ result.size # image

BatchOver == status \in {"done", "failed"}

\* C13: when one item of a batch raises, only that item is aborted: the
\* outputs written before it are still there, and every item after it in the
\* iteration order is still handled (skipped by the overwrite rule, or
\* processed and written unless it raises itself).
C13_ErrorIsolated ==
    (BatchOver /\ loaded \ written # {})
        => /\ \A i \in written : out_dir[Dest(i)] # Absent
           /\ \A i \in 1..Len(items) :
                \/ i \in skipped
                \/ i \in written
                \/ items[i] \in bad

\* C17: with overwrite=False, an item whose destination exists when it is
\* reached is skipped without being loaded or written and the destination
\* keeps its content, and once the run is over every item whose destination
\* did not exist was loaded and written.
C17_SkipExistingWriteMissing ==
    [][ ~overwrite =>
          /\ (AtItem /\ out_dir[Dest(idx)] # Absent)
                => /\ out_dir' = out_dir
                   /\ loaded' = loaded
                   /\ written' = written
          /\ BatchOver' =>
                \A i \in 1..Len(items') :
                    \/ i \in skipped' /\ i \notin loaded'
                    \/ i \in written' /\ i \in loaded'
                    \/ items'[i] \in bad' ]_vars

\* C18: a run without errors into an empty output directory leaves as many
\* output files as there are input images.
C18_OneOutputPerInput ==
    (status = "done" /\ loaded = written /\ \A d \in DestNames : out_dir0[d] = Absent)
        => Cardinality(OutputFiles) = Len(items)

\* C14: after rename_images the directory holds as many image files as
\* before, named prefix1 .. prefixn with their own extensions in the sorted
\* order of the original names, each with the content of the original file:
\* nothing is overwritten or lost.
C14_RenameKeepsEveryFile ==
    ren_status = "done" =>
        LET before == ListImages(ren_dir0)
            n == Len(before)
        IN  /\ Len(ListImages(ren_dir)) = n
            /\ \A i \in 1..n :
                /\ NewName(ren_prefix, i, before[i]) \in DOMAIN ren_dir
                /\ ren_dir[NewName(ren_prefix, i, before[i])] = ren_dir0[before[i]]

RectInsideDisplay(state) ==
    /\ 0 <= state.rect[1] /\ state.rect[1] <= state.rect[3]
    /\ state.rect[3] <= state.display_image[1]
    /\ 0 <= state.rect[2] /\ state.rect[2] <= state.rect[4]
    /\ state.rect[4] <= state.display_image[2]

RectSize(state) == <<state.rect[3] - state.rect[1], state.rect[4] - state.rect[2]>>

\* the rectangle spans the display in one direction, has the shape's aspect
\* to the nearest pixel in the other, and its margins differ by at most 1
LargestCentered(state, label) ==
    LET target == ACCEPTED_SHAPES[label]
        disp == state.display_image
        size == RectSize(state)
    IN  /\ \/ /\ size[2] = disp[2]
              /\ 2 * Abs(size[1] * target[2] - size[2] * target[1]) <= target[2]
           \/ /\ size[1] = disp[1]
              /\ 2 * Abs(size[2] * target[1] - size[1] * target[2]) <= target[1]
        /\ (disp[1] - state.rect[3]) - state.rect[1] \in {0, 1}
        /\ (disp[2] - state.rect[4]) - state.rect[2] \in {0, 1}

\* C19: after every mouse-down, mouse-drag and shape-change on a loaded image
\* the crop rectangle lies inside the displayed image; a move keeps the width
\* and height of the rectangle; a shape change resets the rectangle to the
\* largest centered rectangle of the selected shape's aspect.
C19_RectStaysInside ==
    [][ /\ (OnMouseDown \/ OnMouseDrag \/ OnShapeChange) => RectInsideDisplay(current')
        /\ (OnMouseDown \/ OnMouseDrag) => RectSize(current') = RectSize(current)
        /\ OnShapeChange => LargestCentered(current', app_shape_label') ]_vars

\* the rectangle was moved away from the centre into the bottom right corner
C19_Witness ==
    /\ app_status = "running"
    /\ drag_offset # <<>>
    /\ current.rect # ResetRect(current.display_image, app_shape_label)
    /\ current.rect[3] = current.display_image[1]
    /\ current.rect[4] = current.display_image[2]
    /\ current.rect[1] > 0

BoxWithin(box, size) ==
    /\ 0 <= box[1] /\ box[1] < box[3] /\ box[3] <= size[1]
    /\ 0 <= box[2] /\ box[2] < box[4] /\ box[4] <= size[2]

\* C20: whenever on_save runs, the crop box it maps back from the display
\* rectangle lies within the original image and is not empty:
\* 0 <= x0 < x1 <= width and 0 <= y0 < y1 <= height.
C20_CropBoxWithinOriginal ==
    [][ (OnSave /\ saved' # saved)
            => BoxWithin(SavedCrop(current, app_shape_label).box, current.pil_image) ]_vars

====
